---- MODULE Spec2Model ----
(***************************************************************************)
(* A model of src/utils.py: download_youtube, generate_subtitles,          *)
(* save_clip and apply_filter.  One behaviour is one call of one of the    *)
(* four functions, started from a clean working directory.  The external   *)
(* libraries (pytube, speech_recognition, pydub, moviepy) are modelled by  *)
(* their outcomes: every library call either succeeds or raises.           *)
(*                                                                         *)
(* Times of the audio signal are integers in milliseconds, as len(audio)   *)
(* is; a time in seconds is the pair [s, ms] of whole seconds and          *)
(* thousandths.  Strings that the code slices are sequences of characters. *)
(***************************************************************************)
EXTENDS Integers, Sequences, FiniteSets, TLC

VARIABLES pc, op, result, failure, printed, tempFiles, outFile, gs, sc, af

vars == <<pc, op, result, failure, printed, tempFiles, outFile, gs, sc, af>>

(* ---------------- bounds of the model ---------------- *)
MaxChunks == 2
MaxDim == 4
MaxT == 3
MaxSubs == 2

(* ---------------- program constants ---------------- *)
chunk_duration == 10000
MsPerSec == 1000
SlugLen == 30

Remainders == {0, 1, 2500, 9999}
AudioLengths == {c * chunk_duration + r : c \in 0..MaxChunks, r \in Remainders}
Texts == {"hi", "x"}

Min(a, b) == IF a <= b THEN a ELSE b
Max(a, b) == IF a >= b THEN a ELSE b
CeilDiv(a, b) == (a + b - 1) \div b

(* ---------------- results of a call ---------------- *)
NoResult == [kind |-> "none"]
Returned(v) == [kind |-> "returned", value |-> v]

RaisedNoCause(prefix, cause) == [kind |-> "raised", message |-> <<prefix, "">>]

\* raise Exception(f"<prefix>: {str(e)}")
Raised(prefix, cause) == [kind |-> "raised", message |-> <<prefix, cause>>]

NoLocals == [none |-> TRUE]

(* ---------------- generate_subtitles ---------------- *)
\* i / 1000: milliseconds to seconds
ToSeconds(ms) == [s |-> ms \div MsPerSec, ms |-> ms % MsPerSec]

SecLE(a, b) == a.s < b.s \/ (a.s = b.s /\ a.ms <= b.ms)
MinSec(a, b) == IF SecLE(a, b) THEN a ELSE b

WindowStart(i) == ToSeconds(i)

WindowEndNoClamp(i, len) == ToSeconds(i + chunk_duration)

\* end_time = min((i + chunk_duration) / 1000, len(audio) / 1000)
WindowEnd(i, len) == MinSec(ToSeconds(i + chunk_duration), ToSeconds(len))

\* the outer handler: print the error and return []
Fallback(cause) ==
    /\ printed' = <<"Error generating subtitles: ", cause>>
    /\ result' = Returned(<<>>)
    /\ failure' = cause
    /\ pc' = "done"

GS_Call ==
    /\ pc = "idle"
    /\ \E len \in AudioLengths :
          gs' = [len |-> len, i |-> 0, subtitles |-> <<>>, windows |-> <<>>]
    /\ op' = "generate_subtitles"
    /\ pc' = "gs_loop"
    /\ UNCHANGED <<result, failure, printed, tempFiles, outFile, sc, af>>

GS_LoadFail ==
    /\ pc = "idle"
    /\ op' = "generate_subtitles"
    /\ Fallback("from_wav")
    /\ UNCHANGED <<tempFiles, outFile, gs, sc, af>>

\* for i in range(0, len(audio), chunk_duration): ... return subtitles
GS_Loop ==
    /\ pc = "gs_loop"
    /\ IF gs.i < gs.len
         THEN /\ pc' = "gs_export"
              /\ UNCHANGED result
         ELSE /\ pc' = "done"
              /\ result' = Returned(gs.subtitles)
    /\ UNCHANGED <<op, failure, printed, tempFiles, outFile, gs, sc, af>>

GS_Export ==
    /\ pc = "gs_export"
    /\ tempFiles' = tempFiles \cup {gs.i}
    /\ pc' = "gs_record"
    /\ UNCHANGED <<op, result, failure, printed, outFile, gs, sc, af>>

\* the export raises, before or after the file has been created
GS_ExportFail ==
    /\ pc = "gs_export"
    /\ \E created \in BOOLEAN :
          tempFiles' = IF created THEN tempFiles \cup {gs.i} ELSE tempFiles
    /\ Fallback("export")
    /\ UNCHANGED <<op, outFile, gs, sc, af>>

GS_Record ==
    /\ pc = "gs_record"
    /\ pc' = "gs_recognize"
    /\ UNCHANGED <<op, result, failure, printed, tempFiles, outFile, gs, sc, af>>

\* sr.AudioFile(chunk_file) or recognizer.record(source) raises
GS_RecordFail ==
    /\ pc = "gs_record"
    /\ Fallback("record")
    /\ UNCHANGED <<op, tempFiles, outFile, gs, sc, af>>

GS_RecognizeOk ==
    /\ pc = "gs_recognize"
    /\ \E text \in Texts :
          gs' = [gs EXCEPT
                   !.subtitles = Append(@, <<WindowStart(gs.i), WindowEnd(gs.i, gs.len), text>>),
                   !.windows = Append(@, [i |-> gs.i, ok |-> TRUE, text |-> text])]
    /\ pc' = "gs_remove"
    /\ UNCHANGED <<op, result, failure, printed, tempFiles, outFile, sc, af>>

GS_RecognizeAborts ==
    /\ pc = "gs_recognize"
    /\ gs' = [gs EXCEPT !.windows = Append(@, [i |-> gs.i, ok |-> FALSE, text |-> ""])]
    /\ pc' = "done"
    /\ result' = Returned(gs.subtitles)
    /\ tempFiles' = tempFiles \ {gs.i}
    /\ UNCHANGED <<op, failure, printed, outFile, sc, af>>

\* except: pass
GS_RecognizeFail ==
    /\ pc = "gs_recognize"
    /\ gs' = [gs EXCEPT !.windows = Append(@, [i |-> gs.i, ok |-> FALSE, text |-> ""])]
    /\ pc' = "gs_remove"
    /\ UNCHANGED <<op, result, failure, printed, tempFiles, outFile, sc, af>>

\* os.remove(chunk_file), then the next i of the range
GS_Remove ==
    /\ pc = "gs_remove"
    /\ tempFiles' = tempFiles \ {gs.i}
    /\ gs' = [gs EXCEPT !.i = @ + chunk_duration]
    /\ pc' = "gs_loop"
    /\ UNCHANGED <<op, result, failure, printed, outFile, sc, af>>

GS_RemoveFail ==
    /\ pc = "gs_remove"
    /\ Fallback("remove")
    /\ UNCHANGED <<op, tempFiles, outFile, gs, sc, af>>

\* the except clauses of download_youtube, save_clip and apply_filter
Raise(prefix, cause) ==
    /\ result' = Raised(prefix, cause)
    /\ failure' = cause
    /\ pc' = "done"

(* ---------------- download_youtube ---------------- *)
Titles == {<<"a", " ", "b">>, <<"v">>, <<>>}
Sessions == {<<"s", "1">>, <<"s", "2">>}
DownloadCauses == {"YouTube", "streams", "title", "download"}

\* yt.title.replace(' ', '_')[:30]
Slug(title) ==
    LET replaced == [k \in 1..Len(title) |-> IF title[k] = " " THEN "_" ELSE title[k]]
    IN  SubSeq(replaced, 1, Min(SlugLen, Len(replaced)))

\* f"{session_id}_{slug}.mp4"
Filename(session_id, title) == session_id \o <<"_">> \o Slug(title) \o <<".mp4">>

DY_Call ==
    /\ pc = "idle"
    /\ op' = "download_youtube"
    /\ \E title \in Titles, session_id \in Sessions :
          result' = Returned(<<"upload_folder", Filename(session_id, title)>>)
    /\ pc' = "done"
    /\ UNCHANGED <<failure, printed, tempFiles, outFile, gs, sc, af>>

DY_Fail ==
    /\ pc = "idle"
    /\ op' = "download_youtube"
    /\ \E cause \in DownloadCauses : Raise("Failed to download YouTube video", cause)
    /\ UNCHANGED <<printed, tempFiles, outFile, gs, sc, af>>

(* ---------------- save_clip ---------------- *)
Dims == ((1..MaxDim) \X (1..MaxDim)) \cup {<<16, 9>>, <<9, 16>>}
Times == 0..MaxT
Segments == {<<st, et, text>> : st \in Times, et \in Times, text \in Texts}
ValidSegments == {seg \in Segments : seg[1] < seg[2]}
SeqsUpTo(S, n) == UNION {[1..k -> S] : k \in 0..n}
SubtitleInputs == SeqsUpTo(ValidSegments, MaxSubs)

\* current_aspect_ratio > target_aspect_ratio, with target 9/16 (both exact
\* in binary floating point for frame sizes below 2^49)
TooWide(w, h) == 16 * w > 9 * h
TooTall(w, h) == 16 * w < 9 * h

NewWidthSwapped(h) == (h * 16) \div 9

\* int(clip.h * target_aspect_ratio)
NewWidth(h) == (h * 9) \div 16

\* int(clip.w / target_aspect_ratio)
NewHeight(w) == (w * 16) \div 9

CropOffsetNone(full, new) == 0

\* crop_x1 = (clip.w - new_width) // 2; crop_y1 likewise
CropOffset(full, new) == (full - new) \div 2

FullFrame(w, h) == [x1 |-> 0, y1 |-> 0, x2 |-> w, y2 |-> h]

\* the rectangle handed to clip.crop, or the full frame when crop is not called
CropBox(w, h, vertical) ==
    IF vertical /\ TooWide(w, h)
      THEN LET new_width == NewWidth(h)
               crop_x1 == CropOffset(w, new_width)
           IN  [x1 |-> crop_x1, y1 |-> 0, x2 |-> crop_x1 + new_width, y2 |-> h]
    ELSE IF vertical /\ TooTall(w, h)
      THEN LET new_height == NewHeight(w)
               crop_y1 == CropOffset(h, new_height)
           IN  [x1 |-> 0, y1 |-> crop_y1, x2 |-> w, y2 |-> crop_y1 + new_height]
    ELSE FullFrame(w, h)

CropCalled(w, h, vertical) == vertical /\ (TooWide(w, h) \/ TooTall(w, h))

OverlapsInclusive(seg, start_time, end_time) == seg[2] >= start_time /\ seg[1] <= end_time

\* if et > start_time and st < end_time
Overlaps(seg, start_time, end_time) == seg[2] > start_time /\ seg[1] < end_time

RetimeNoClamp(seg, start_time, end_time) ==
    <<seg[1] - start_time, Min(seg[2] - start_time, end_time - start_time), seg[3]>>

\* (max(0, st - start_time), min(et - start_time, end_time - start_time), text)
Retime(seg, start_time, end_time) ==
    <<Max(0, seg[1] - start_time), Min(seg[2] - start_time, end_time - start_time), seg[3]>>

\* the list comprehension clip_subtitles, guarded by "if subtitles:"
ClipSubtitles(subtitles, start_time, end_time) ==
    IF subtitles = <<>> THEN <<>>
    ELSE LET Test(seg) == Overlaps(seg, start_time, end_time)
             selected == SelectSeq(subtitles, Test)
         IN  [k \in 1..Len(selected) |-> Retime(selected[k], start_time, end_time)]

SC_Call ==
    /\ pc = "idle"
    /\ op' = "save_clip"
    /\ \E d \in Dims, start_time \in Times, end_time \in Times,
          subtitles \in SubtitleInputs, vertical \in BOOLEAN :
          /\ start_time < end_time
          /\ sc' = [src_w |-> d[1], src_h |-> d[2], w |-> d[1], h |-> d[2],
                    box |-> FullFrame(d[1], d[2]),
                    start_time |-> start_time, end_time |-> end_time,
                    subtitles |-> subtitles, vertical |-> vertical,
                    clip_subtitles |-> <<>>, composite |-> FALSE]
    /\ pc' = "sc_crop"
    /\ UNCHANGED <<result, failure, printed, tempFiles, outFile, gs, af>>

\* VideoFileClip(video_path).subclip(start_time, end_time) raises
SC_LoadFail ==
    /\ pc = "idle"
    /\ op' = "save_clip"
    /\ Raise("Error saving clip", "subclip")
    /\ UNCHANGED <<printed, tempFiles, outFile, gs, sc, af>>

SC_Crop ==
    /\ pc = "sc_crop"
    /\ LET box == CropBox(sc.w, sc.h, sc.vertical)
       IN  sc' = [sc EXCEPT !.box = box, !.w = box.x2 - box.x1, !.h = box.y2 - box.y1]
    /\ pc' = "sc_subtitles"
    /\ UNCHANGED <<op, result, failure, printed, tempFiles, outFile, gs, af>>

SC_CropFail ==
    /\ pc = "sc_crop"
    /\ CropCalled(sc.w, sc.h, sc.vertical)
    /\ Raise("Error saving clip", "crop")
    /\ UNCHANGED <<op, printed, tempFiles, outFile, gs, sc, af>>

SC_Subtitles ==
    /\ pc = "sc_subtitles"
    /\ LET clip_subtitles == ClipSubtitles(sc.subtitles, sc.start_time, sc.end_time)
       IN  sc' = [sc EXCEPT !.clip_subtitles = clip_subtitles,
                            !.composite = (clip_subtitles # <<>>)]
    /\ pc' = "sc_write"
    /\ UNCHANGED <<op, result, failure, printed, tempFiles, outFile, gs, af>>

\* TextClip(...) or CompositeVideoClip(...) raises
SC_TextClipFail ==
    /\ pc = "sc_subtitles"
    /\ ClipSubtitles(sc.subtitles, sc.start_time, sc.end_time) # <<>>
    /\ Raise("Error saving clip", "TextClip")
    /\ UNCHANGED <<op, printed, tempFiles, outFile, gs, sc, af>>

SC_Write ==
    /\ pc = "sc_write"
    /\ outFile' = "complete"
    /\ pc' = "sc_close"
    /\ UNCHANGED <<op, result, failure, printed, tempFiles, gs, sc, af>>

\* write_videofile raises, before or after it has begun to write output_path
SC_WriteFail ==
    /\ pc = "sc_write"
    /\ \E left \in {"absent", "partial"} : outFile' = left
    /\ Raise("Error saving clip", "write_videofile")
    /\ UNCHANGED <<op, printed, tempFiles, gs, sc, af>>

\* clip.close(); return output_path
SC_Close ==
    /\ pc = "sc_close"
    /\ result' = Returned("output_path")
    /\ pc' = "done"
    /\ UNCHANGED <<op, failure, printed, tempFiles, outFile, gs, sc, af>>

(* ---------------- apply_filter ---------------- *)
KnownFilters == {"grayscale", "bright", "dark", "contrast", "sepia", "vignette", "blur"}
FilterNames == KnownFilters \cup {"", "Dark", "invert"}

NoTransform == [fx |-> "none", param |-> <<>>]

SelectTransformDarkAsBright(filter_name) ==
    CASE filter_name = "grayscale" -> [fx |-> "blackwhite", param |-> <<>>]
      [] filter_name = "bright"    -> [fx |-> "colorx", param |-> <<"factor", 15>>]
      [] filter_name = "dark"      -> [fx |-> "colorx", param |-> <<"factor", 15>>]
      [] filter_name = "contrast"  -> [fx |-> "lum_contrast", param |-> <<"contrast", 15>>]
      [] filter_name = "sepia"     -> [fx |-> "sepia", param |-> <<>>]
      [] filter_name = "vignette"  -> [fx |-> "vignette", param |-> <<>>]
      [] filter_name = "blur"      -> [fx |-> "gaussian_blur", param |-> <<"sigma", 10>>]
      [] OTHER                     -> NoTransform

\* the if/elif chain; numeric parameters are in tenths
SelectTransform(filter_name) ==
    CASE filter_name = "grayscale" -> [fx |-> "blackwhite", param |-> <<>>]
      [] filter_name = "bright"    -> [fx |-> "colorx", param |-> <<"factor", 15>>]
      [] filter_name = "dark"      -> [fx |-> "colorx", param |-> <<"factor", 7>>]
      [] filter_name = "contrast"  -> [fx |-> "lum_contrast", param |-> <<"contrast", 15>>]
      [] filter_name = "sepia"     -> [fx |-> "sepia", param |-> <<>>]
      [] filter_name = "vignette"  -> [fx |-> "vignette", param |-> <<>>]
      [] filter_name = "blur"      -> [fx |-> "gaussian_blur", param |-> <<"sigma", 10>>]
      [] OTHER                     -> NoTransform

AF_Call ==
    /\ pc = "idle"
    /\ op' = "apply_filter"
    /\ \E filter_name \in FilterNames :
          af' = [filter_name |-> filter_name, transform |-> NoTransform]
    /\ pc' = "af_select"
    /\ UNCHANGED <<result, failure, printed, tempFiles, outFile, gs, sc>>

\* VideoFileClip(input_path) raises
AF_LoadFail ==
    /\ pc = "idle"
    /\ op' = "apply_filter"
    /\ Raise("Error applying filter", "VideoFileClip")
    /\ UNCHANGED <<printed, tempFiles, outFile, gs, sc, af>>

AF_Select ==
    /\ pc = "af_select"
    /\ af' = [af EXCEPT !.transform = SelectTransform(af.filter_name)]
    /\ pc' = "af_write"
    /\ UNCHANGED <<op, result, failure, printed, tempFiles, outFile, gs, sc>>

\* clip.fx(...) raises; no fx is called for a name outside the chain
AF_FxFail ==
    /\ pc = "af_select"
    /\ SelectTransform(af.filter_name) # NoTransform
    /\ Raise("Error applying filter", "fx")
    /\ UNCHANGED <<op, printed, tempFiles, outFile, gs, sc, af>>

AF_Write ==
    /\ pc = "af_write"
    /\ outFile' = "complete"
    /\ pc' = "af_close"
    /\ UNCHANGED <<op, result, failure, printed, tempFiles, gs, sc, af>>

AF_WriteFail ==
    /\ pc = "af_write"
    /\ \E left \in {"absent", "partial"} : outFile' = left
    /\ Raise("Error applying filter", "write_videofile")
    /\ UNCHANGED <<op, printed, tempFiles, gs, sc, af>>

AF_Close ==
    /\ pc = "af_close"
    /\ result' = Returned("output_path")
    /\ pc' = "done"
    /\ UNCHANGED <<op, failure, printed, tempFiles, outFile, gs, sc, af>>

Init ==
    /\ pc = "idle"
    /\ op = "none"
    /\ result = NoResult
    /\ failure = "none"
    /\ printed = <<>>
    /\ tempFiles = {}
    /\ outFile = "absent"
    /\ gs = NoLocals
    /\ sc = NoLocals
    /\ af = NoLocals

Next ==
    \/ GS_Call
    \/ GS_LoadFail
    \/ GS_Loop
    \/ GS_Export
    \/ GS_ExportFail
    \/ GS_Record
    \/ GS_RecordFail
    \/ GS_RecognizeOk
    \/ GS_RecognizeFail
    \/ GS_Remove
    \/ GS_RemoveFail
    \/ DY_Call
    \/ DY_Fail
    \/ SC_Call
    \/ SC_LoadFail
    \/ SC_Crop
    \/ SC_CropFail
    \/ SC_Subtitles
    \/ SC_TextClipFail
    \/ SC_Write
    \/ SC_WriteFail
    \/ SC_Close
    \/ AF_Call
    \/ AF_LoadFail
    \/ AF_Select
    \/ AF_FxFail
    \/ AF_Write
    \/ AF_WriteFail
    \/ AF_Close

Spec == Init /\ [][Next]_vars

(* ======================= properties ======================= *)
GSNormalReturn == op = "generate_subtitles" /\ pc = "done" /\ failure = "none"
GSInLoop == op = "generate_subtitles" /\ pc # "idle" /\ failure # "from_wav"

\* C1: a call of generate_subtitles that returns normally on audio of
\* duration D has processed exactly ceil(D / 10 s) windows; window k
\* (counted from 0) starts at k * 10 s and ends at min(k * 10 + 10 s, D),
\* so the last window ends at D when D is not a multiple of 10 s, and no
\* window is processed when D = 0.
C1_WindowTimes ==
    GSNormalReturn =>
      LET D == gs.len
          n == Len(gs.windows)
          StartOf(k) == [s |-> k * 10, ms |-> 0]
          EndOf(k) == IF (k * 10 + 10) * 1000 <= D
                        THEN [s |-> k * 10 + 10, ms |-> 0]
                        ELSE [s |-> D \div 1000, ms |-> D % 1000]
      IN  /\ n * 10 * 1000 >= D
          /\ (n - 1) * 10 * 1000 < D
          /\ (D = 0 => n = 0)
          /\ \A k \in 0..(n - 1) : gs.windows[k + 1].i = k * 10 * 1000
          /\ \A j \in 1..Len(gs.subtitles) :
                \E k \in 0..(n - 1) :
                   /\ gs.windows[k + 1].ok
                   /\ gs.subtitles[j][1] = StartOf(k)
                   /\ gs.subtitles[j][2] = EndOf(k)
          /\ (n > 0 /\ D % (10 * 1000) # 0 /\ gs.windows[n].ok) =>
                gs.subtitles[Len(gs.subtitles)][2] = [s |-> D \div 1000, ms |-> D % 1000]

C1_Witness ==
    /\ GSNormalReturn
    /\ gs.len = 12500
    /\ Len(gs.windows) = 2
    /\ gs.windows[2].ok
    /\ gs.subtitles[Len(gs.subtitles)][2] = [s |-> 12, ms |-> 500]

ExpectedSegments(windows, len) ==
    LET Ok(w) == w.ok
        sel == SelectSeq(windows, Ok)
    IN  [j \in 1..Len(sel) |-> <<WindowStart(sel[j].i), WindowEnd(sel[j].i, len), sel[j].text>>]

\* C2: a recognition failure on a window never ends generate_subtitles:
\* the loop goes on to every later window, and the list built (and returned
\* on normal return) holds one segment per recognised window and none for a
\* failed one, in window order; it is empty when every window fails.
C2_FailureSkipsWindow ==
    GSInLoop =>
      /\ gs.subtitles = ExpectedSegments(gs.windows, gs.len)
      /\ \A k \in 1..Len(gs.windows) : gs.windows[k].i = (k - 1) * chunk_duration
      /\ GSNormalReturn =>
            /\ Len(gs.windows) = CeilDiv(gs.len, chunk_duration)
            /\ result = Returned(gs.subtitles)
            /\ ((\A k \in 1..Len(gs.windows) : ~gs.windows[k].ok) => result.value = <<>>)

C2_Witness ==
    /\ GSNormalReturn
    /\ Len(gs.windows) = 3
    /\ ~gs.windows[1].ok
    /\ gs.windows[2].ok
    /\ ~gs.windows[3].ok
    /\ Len(result.value) = 1

\* C3: the temporary file of a window is deleted before the next window's
\* file is created, so at most one temporary chunk file exists at any time,
\* and none exists once generate_subtitles has returned, normally or by its
\* fallback return of an empty list.
C3_NoTempFileLeak ==
    op = "generate_subtitles" =>
      /\ Cardinality(tempFiles) <= 1
      /\ (pc = "gs_export" => tempFiles = {})
      /\ (pc = "done" => tempFiles = {})

SCCropped == op = "save_clip" /\ pc \in {"sc_subtitles", "sc_write", "sc_close"}
SCCaptioned == op = "save_clip" /\ pc \in {"sc_write", "sc_close"}

Abs(x) == IF x >= 0 THEN x ELSE -x

\* C4: with vertical=True the cropped frame is no larger than the source
\* on either axis and its width:height is 9:16 within one pixel:
\* |w' - h' * 9/16| < 1 when the sides were cropped, |h' - w' * 16/9| < 1
\* when top and bottom were cropped; a 16:9 source is cropped on the left
\* and right only.
C4_VerticalAspect ==
    (SCCropped /\ sc.vertical) =>
      LET sides == sc.box.x1 > 0 \/ sc.box.x2 < sc.src_w
          ends == sc.box.y1 > 0 \/ sc.box.y2 < sc.src_h
      IN  /\ sc.w <= sc.src_w
          /\ sc.h <= sc.src_h
          /\ sc.w >= 0 /\ sc.h >= 0
          /\ sides => Abs(16 * sc.w - 9 * sc.h) < 16
          /\ ends => Abs(9 * sc.h - 16 * sc.w) < 9
          /\ (~sides /\ ~ends) => 16 * sc.w = 9 * sc.h
          /\ (9 * sc.src_w = 16 * sc.src_h) => (sides /\ ~ends /\ sc.h = sc.src_h)

C4_Witness ==
    /\ SCCropped
    /\ sc.vertical
    /\ sc.src_w = 16 /\ sc.src_h = 9
    /\ sc.w = 5 /\ sc.h = 9

\* C5 as stated: the vertical crop removes as many columns on the left as
\* on the right and leaves the height unchanged when width/height > 9/16,
\* removes as many rows at the top as at the bottom and leaves the width
\* unchanged when width/height < 9/16, and changes nothing when the ratio is
\* 9:16 or vertical is not requested.
C5_ExactlySymmetric ==
    SCCropped =>
      LET left == sc.box.x1
          right == sc.src_w - sc.box.x2
          top == sc.box.y1
          bottom == sc.src_h - sc.box.y2
      IN  IF sc.vertical /\ 16 * sc.src_w > 9 * sc.src_h
            THEN left = right /\ top = 0 /\ bottom = 0 /\ sc.h = sc.src_h
          ELSE IF sc.vertical /\ 16 * sc.src_w < 9 * sc.src_h
            THEN top = bottom /\ left = 0 /\ right = 0 /\ sc.w = sc.src_w
          ELSE sc.w = sc.src_w /\ sc.h = sc.src_h /\ left = 0 /\ right = 0
               /\ top = 0 /\ bottom = 0

\* C5 amended: the crop touches one axis only and is centred to within one
\* pixel: the columns removed on the left are floor(removed / 2) and those
\* on the right the rest (equal when the number removed is even, one more on
\* the right when it is odd); likewise for rows at the top and the bottom;
\* nothing changes when the ratio is 9:16 or vertical is not requested.
C5_CentredWithinOnePixel ==
    SCCropped =>
      LET left == sc.box.x1
          right == sc.src_w - sc.box.x2
          top == sc.box.y1
          bottom == sc.src_h - sc.box.y2
      IN  IF sc.vertical /\ 16 * sc.src_w > 9 * sc.src_h
            THEN /\ left + right = sc.src_w - sc.w
                 /\ right - left = (sc.src_w - sc.w) % 2
                 /\ top = 0 /\ bottom = 0 /\ sc.h = sc.src_h
          ELSE IF sc.vertical /\ 16 * sc.src_w < 9 * sc.src_h
            THEN /\ top + bottom = sc.src_h - sc.h
                 /\ bottom - top = (sc.src_h - sc.h) % 2
                 /\ left = 0 /\ right = 0 /\ sc.w = sc.src_w
          ELSE sc.w = sc.src_w /\ sc.h = sc.src_h /\ left = 0 /\ right = 0
               /\ top = 0 /\ bottom = 0

C5_Witness ==
    /\ SCCropped
    /\ sc.vertical
    /\ sc.src_w = 16 /\ sc.src_h = 9
    /\ sc.box.x1 = 5
    /\ sc.src_w - sc.box.x2 = 6

Range(s) == {s[k] : k \in 1..Len(s)}

\* C6: the caption set of save_clip holds a caption for a segment
\* (st, et, text) iff et > start_time and st < end_time; each one is
\* (max(0, st - start_time), min(et - start_time, end_time - start_time),
\* text); segment (5, 12, "hi") with range (8, 20) gives (0, 4, "hi").
C6_CaptionSelection ==
    /\ ClipSubtitles(<<<<5, 12, "hi">>>>, 8, 20) = <<<<0, 4, "hi">>>>
    /\ ClipSubtitles(<<<<0, 3, "x">>>>, 8, 20) = <<>>
    /\ SCCaptioned =>
         LET s0 == sc.start_time
             e0 == sc.end_time
             kept == {k \in 1..Len(sc.subtitles) :
                         sc.subtitles[k][2] > s0 /\ sc.subtitles[k][1] < e0}
             Caption(k) ==
                 LET st == sc.subtitles[k][1]
                     et == sc.subtitles[k][2]
                 IN  <<IF st - s0 > 0 THEN st - s0 ELSE 0,
                       IF et - s0 < e0 - s0 THEN et - s0 ELSE e0 - s0,
                       sc.subtitles[k][3]>>
         IN  /\ Len(sc.clip_subtitles) = Cardinality(kept)
             /\ Range(sc.clip_subtitles) = {Caption(k) : k \in kept}

C6_Witness ==
    /\ SCCaptioned
    /\ sc.start_time = 1 /\ sc.end_time = 3
    /\ sc.subtitles = <<<<0, 1, "x">>, <<0, 2, "hi">>>>
    /\ sc.clip_subtitles = <<<<0, 1, "hi">>>>

DoneFailed == pc = "done" /\ failure # "none"

\* C7 as stated: every failure other than a recognition failure on one
\* window reaches the caller as an error that wraps the original cause, in
\* download_youtube, generate_subtitles, save_clip and apply_filter alike.
C7_AllFailuresRaise ==
    DoneFailed => (result.kind = "raised" /\ result.message[2] = failure)

\* C7 amended: every failure in download_youtube, save_clip and
\* apply_filter reaches the caller as an error that wraps the original
\* cause and is never turned into a normal return; generate_subtitles
\* instead catches a failure outside the per-window recognition, prints it
\* and returns an empty list.
C7_FailuresRaiseExceptInSubtitles ==
    pc = "done" =>
      IF op = "generate_subtitles"
        THEN /\ result.kind = "returned"
             /\ failure # "none" => (result.value = <<>> /\ printed[2] = failure)
        ELSE /\ (failure # "none") <=> (result.kind = "raised")
             /\ failure # "none" => result.message[2] = failure

C7_Witness ==
    /\ pc = "done"
    /\ op = "save_clip"
    /\ failure = "write_videofile"
    /\ result.kind = "raised"
    /\ result.message = <<"Error saving clip", "write_videofile">>

\* C8: when save_clip has raised its error, no partial output file is left
\* at output_path, also when the failure came after writing had begun.
C8_NoPartialOutput ==
    (op = "save_clip" /\ pc = "done" /\ result.kind = "raised") => outFile = "absent"

C9_Table ==
    [name \in FilterNames |->
       IF name = "grayscale" THEN <<"blackwhite">>
       ELSE IF name = "bright" THEN <<"colorx", "factor", 15>>
       ELSE IF name = "dark" THEN <<"colorx", "factor", 7>>
       ELSE IF name = "contrast" THEN <<"lum_contrast", "contrast", 15>>
       ELSE IF name = "sepia" THEN <<"sepia">>
       ELSE IF name = "vignette" THEN <<"vignette">>
       ELSE IF name = "blur" THEN <<"gaussian_blur", "sigma", 10>>
       ELSE <<"none">>]

AFSelected == op = "apply_filter" /\ pc \in {"af_write", "af_close"}

\* C9: apply_filter selects the transform from filter_name alone: each of
\* the seven names selects its own transform with its fixed parameter, a
\* different one for each name; any other name selects none, so the clip is
\* written unmodified and the call returns output_path.
C9_FilterDispatch ==
    /\ AFSelected =>
         /\ <<af.transform.fx>> \o af.transform.param = C9_Table[af.filter_name]
         /\ (af.transform = NoTransform) <=>
               (af.filter_name \notin {"grayscale", "bright", "dark", "contrast",
                                        "sepia", "vignette", "blur"})
         /\ \A other \in KnownFilters :
               other # af.filter_name => SelectTransform(other) # af.transform
    /\ (op = "apply_filter" /\ pc = "done" /\ failure \notin {"VideoFileClip"}
          /\ af.filter_name \notin KnownFilters) =>
         /\ failure # "fx"
         /\ failure = "none" => (result = Returned("output_path") /\ outFile = "complete")

C9_Witness ==
    /\ op = "apply_filter"
    /\ pc = "done"
    /\ failure = "none"
    /\ af.filter_name = "invert"
    /\ af.transform = NoTransform
    /\ result = Returned("output_path")

\* C10: for a range start_time < end_time and segments with 0 <= st < et,
\* every caption kept by save_clip has 0 <= rel_start < rel_end <=
\* end_time - start_time, and the captions are in the order of their
\* segments in the input.
C10_CaptionsWellFormed ==
    (SCCaptioned /\ sc.start_time < sc.end_time
       /\ \A k \in 1..Len(sc.subtitles) :
             0 <= sc.subtitles[k][1] /\ sc.subtitles[k][1] < sc.subtitles[k][2]) =>
      /\ \A j \in 1..Len(sc.clip_subtitles) :
            /\ 0 <= sc.clip_subtitles[j][1]
            /\ sc.clip_subtitles[j][1] < sc.clip_subtitles[j][2]
            /\ sc.clip_subtitles[j][2] <= sc.end_time - sc.start_time
      /\ \E f \in [1..Len(sc.clip_subtitles) -> 1..Len(sc.subtitles)] :
            /\ \A j1, j2 \in 1..Len(sc.clip_subtitles) : j1 < j2 => f[j1] < f[j2]
            /\ \A j \in 1..Len(sc.clip_subtitles) :
                  /\ sc.clip_subtitles[j][3] = sc.subtitles[f[j]][3]
                  /\ sc.clip_subtitles[j][2] + sc.start_time <= sc.subtitles[f[j]][2]
                  /\ sc.clip_subtitles[j][1] + sc.start_time >= sc.subtitles[f[j]][1]

C10_Witness ==
    /\ SCCaptioned
    /\ sc.start_time = 1 /\ sc.end_time = 2
    /\ sc.subtitles = <<<<0, 2, "hi">>, <<1, 3, "x">>>>
    /\ sc.clip_subtitles = <<<<0, 1, "hi">>, <<0, 1, "x">>>>
====
